---- MODULE Spec2Model ----
(***************************************************************************)
(* Model of the Annotator class (src/unnamed/part_000).                    *)
(*                                                                         *)
(* JavaScript strings are sequences of one-character strings, so that      *)
(* concatenation is \o and "is a prefix of" / "equals exactly" are         *)
(* decided character by character.                                         *)
(***************************************************************************)
EXTENDS Integers, Sequences, FiniteSets

\* ------------------------------------------------------------------ bounds
\* Number of chained mutator calls (withDescription / withTag /
\* withPreserveTypes) made on the Annotator.
MaxMutations == 2
\* Number of function objects the decorate calls may allocate
\* (decoratedFunction of line 62, descriptor.value of line 81).
MaxWrappers == 1

\* ------------------------------------------------------- string literals
NLNL == <<"\n", "\n">>
ClassPrefix == <<"C", "l", "a", "s", "s", ":", " ">>
MethodPrefix == <<"M", "e", "t", "h", "o", "d", ":", " ">>
FunctionSeed == <<"F", "u", "n", "c", "t", "i", "o", "n">>
PropertyPrefix == <<"P", "r", "o", "p", "e", "r", "t", "y", ":", " ">>
AtTypeSp == <<"@", "t", "y", "p", "e", " ">>
Unknown == <<"u", "n", "k", "n", "o", "w", "n">>
NumberName == <<"N", "u", "m", "b", "e", "r">>
StringName == <<"S", "t", "r", "i", "n", "g">>
BooleanName == <<"B", "o", "o", "l", "e", "a", "n">>
ObjectName == <<"O", "b", "j", "e", "c", "t">>
DateName == <<"D", "a", "t", "e">>
BigIntName == <<"B", "i", "g", "I", "n", "t">>
SymbolName == <<"S", "y", "m", "b", "o", "l">>
FunctionName == <<"F", "u", "n", "c", "t", "i", "o", "n">>
\* Texts used as inputs.
MyMethod == <<"m", "y", "M", "e", "t", "h", "o", "d">>
Desc == <<"d", "e", "s", "c">>
Author == <<"a", "u", "t", "h", "o", "r">>
Since == <<"s", "i", "n", "c", "e">>
Msg == <<"m", "s", "g">>
Empty == <<>>

IsPrefix(s, t) == Len(s) <= Len(t) /\ SubSeq(t, 1, Len(s)) = s

\* ------------------------------------------------------ JavaScript values
\* An optional string option (message, description): absent, or a string.
NoStr == [set |-> FALSE, s |-> Empty]
Str(s) == [set |-> TRUE, s |-> s]
\* JavaScript truthiness of an optional string: undefined and "" are falsy.
TruthyStr(o) == o.set /\ o.s # Empty

\* A value of the preserveTypes option, described by what getType reads of it:
\* its typeof, its truthiness, and its constructor property
\* (ctor = "fn": a function, with its name; "nonfn": a truthy non-function;
\* "none": undefined).
JSVal(lit, ty, truthy, ctor, name) ==
  [lit |-> lit, ty |-> ty, truthy |-> truthy, ctor |-> ctor, name |-> name]
VAbsent == JSVal("absent", "undefined", FALSE, "none", Empty)
VNull == JSVal("null", "object", FALSE, "none", Empty)
VTrue == JSVal("true", "boolean", TRUE, "fn", BooleanName)
VFalse == JSVal("false", "boolean", FALSE, "fn", BooleanName)
VZero == JSVal("0", "number", FALSE, "fn", NumberName)
VOne == JSVal("1", "number", TRUE, "fn", NumberName)
VEmptyStr == JSVal("''", "string", FALSE, "fn", StringName)
VAbc == JSVal("'abc'", "string", TRUE, "fn", StringName)
VObj == JSVal("{}", "object", TRUE, "fn", ObjectName)
VDate == JSVal("new Date()", "object", TRUE, "fn", DateName)
VBare == JSVal("Object.create(null)", "object", TRUE, "none", Empty)
VOddCtor == JSVal("{constructor: 1}", "object", TRUE, "nonfn", Empty)
VFunc == JSVal("function(){}", "function", TRUE, "fn", FunctionName)
VSymbol == JSVal("Symbol()", "symbol", TRUE, "fn", SymbolName)
VBigOne == JSVal("1n", "bigint", TRUE, "fn", BigIntName)
VBigZero == JSVal("0n", "bigint", FALSE, "fn", BigIntName)

PreserveValues ==
  {VAbsent, VNull, VTrue, VFalse, VZero, VOne, VEmptyStr, VAbc, VObj, VDate,
   VBare, VOddCtor, VFunc, VSymbol, VBigOne, VBigZero}

\* The tags option: absent, or the list Object.entries yields.
NoTags == [set |-> FALSE, entries |-> <<>>]
Tags(es) == [set |-> TRUE, entries |-> es]
Tag(n, v) == [name |-> n, value |-> v]

\* AnnotatorOptions (lines 3-8).
AnnotatorOptions(m, d, t, p) ==
  [message |-> m, description |-> d, tags |-> t, preserveTypes |-> p]

\* --------------------------------------------------- factories, mutators
forClass(className) == ClassPrefix \o className
forMethod(methodName) == MethodPrefix \o methodName
forFunction == FunctionSeed
forProperty(propertyName) == PropertyPrefix \o propertyName

\* The `types` table of getType (lines 105-109).
types ==
  [t \in {"number", "string", "boolean"} |->
     CASE t = "number" -> NumberName
       [] t = "string" -> StringName
       [] t = "boolean" -> BooleanName]

\* getType (lines 104-123): the typeof lookup, then, for a truthy value whose
\* constructor is a function, the constructor's name.
getType_keyedByTruthiness(opts) ==
  LET p == opts.preserveTypes
      type == IF p.truthy /\ p.ty \in DOMAIN types THEN types[p.ty] ELSE Unknown
  IN IF type = Unknown /\ p.truthy /\ p.ctor = "fn" THEN p.name ELSE type

getType(opts) ==
  LET p == opts.preserveTypes
      type == IF p.ty \in DOMAIN types THEN types[p.ty] ELSE Unknown
  IN IF type = Unknown /\ p.truthy /\ p.ctor # "none" /\ p.ctor = "fn"
     THEN p.name
     ELSE type

withDescription_reset(lbl, description) == NLNL \o description

withDescription(lbl, description) == lbl \o NLNL \o description

withTag(lbl, tagName, tagValue) ==
  lbl \o NLNL \o <<"@">> \o tagName \o <<" ">> \o tagValue

withPreserveTypes(lbl, opts) == lbl \o NLNL \o AtTypeSp \o getType(opts)

\* entries.map(([name, value]) => `@${name} ${value}`).join("\n")
RECURSIVE JoinTags(_)
JoinTags(es) ==
  IF es = <<>> THEN Empty
  ELSE LET line == <<"@">> \o es[1].name \o <<" ">> \o es[1].value
       IN IF Len(es) = 1 THEN line ELSE line \o <<"\n">> \o JoinTags(Tail(es))

formatTags(opts) == IF ~opts.tags.set THEN Empty ELSE JoinTags(opts.tags.entries)

toString_skipsEmptyTags(lbl, opts) ==
  LET l1 == IF TruthyStr(opts.message)
            THEN lbl \o <<" ", "(">> \o opts.message.s \o <<")">> ELSE lbl
      l2 == IF TruthyStr(opts.description)
            THEN l1 \o NLNL \o opts.description.s ELSE l1
      l3 == IF formatTags(opts) # Empty THEN l2 \o NLNL \o formatTags(opts) ELSE l2
  IN IF opts.preserveTypes.truthy THEN l3 \o NLNL \o AtTypeSp \o getType(opts) ELSE l3

toString(lbl, opts) ==
  LET l1 == IF TruthyStr(opts.message)
            THEN lbl \o <<" ", "(">> \o opts.message.s \o <<")">> ELSE lbl
      l2 == IF TruthyStr(opts.description)
            THEN l1 \o NLNL \o opts.description.s ELSE l1
      l3 == l2 \o NLNL \o formatTags(opts)
  IN IF opts.preserveTypes.truthy THEN l3 \o NLNL \o AtTypeSp \o getType(opts) ELSE l3

\* toString builds its result in a local (`let label = this.label`, line 138)
\* and never assigns this.label: the value of this.label after toString().
toStringLabel_mutates(lbl, opts) == toString(lbl, opts)

toStringLabel(lbl, opts) == lbl

\* ----------------------------------------------------------- the heap
\* Property keys handed to decorate: two string keys and one symbol.
NoKey == "undefined"
SymKey == "Symbol(s)"
Keys == {"m", "prop", SymKey}
IsSymbol(key) == key = SymKey
\* Values assigned through an installed setter / passed as the argument.
Undef == "undefined"
Vals == {"x", "y"}
\* Arguments passed to the functions called.
Args == {"a"}

NoProp == [kind |-> "none", fn |-> 0, val |-> Undef, cap |-> NoStr]
DataProp(v) == [kind |-> "data", fn |-> 0, val |-> v, cap |-> NoStr]
MethodProp(f) == [kind |-> "data", fn |-> f, val |-> Undef, cap |-> NoStr]
\* The accessor pair of lines 88-98; cap records this.label as it was when
\* decorate ran (history only: the closure holds `self`, not the string).
AccessorProp(lbl) == [kind |-> "accessor", fn |-> 0, val |-> Undef, cap |-> Str(lbl)]

\* A heap object. ty: "function" | "class" (both typeof "function") | "object";
\* integrity: "ext" (extensible) | "nonext" (Object.preventExtensions) |
\* "frozen" (Object.freeze); doc: the __doc__ field; props: own property
\* descriptors per key; shadow: the `_${key}` fields; fkind: the code a call
\* runs ("orig": the user's body, "fwrap": lines 62-64, "mwrap": lines 81-84,
\* "none": not callable); target: the function a wrapper closes over.
Obj(ty, integrity, props, fkind, target, cap) ==
  [ty |-> ty, integrity |-> integrity, doc |-> NoStr, props |-> props,
   shadow |-> [k \in Keys |-> Undef], fkind |-> fkind, target |-> target,
   cap |-> cap]

NoProps == [k \in Keys |-> NoProp]
WithMethod(f) == [NoProps EXCEPT !["m"] = MethodProp(f)]
WithMethodAndField(f) ==
  [NoProps EXCEPT !["m"] = MethodProp(f), !["prop"] = DataProp("x")]

\* The heaps a run starts from.  The caller owns one target: a plain
\* function, a class, or an object (extensible, non-extensible or frozen)
\* whose method m is the function at reference 1; the non-extensible and the
\* frozen object also have a plain field.  Reference 0 is null / undefined.
PlainFunction == Obj("function", "ext", NoProps, "orig", 0, NoStr)
Class == Obj("class", "ext", NoProps, "orig", 0, NoStr)
BaseHeaps ==
  { <<PlainFunction>>,
    <<Class>>,
    <<PlainFunction, Obj("object", "ext", WithMethod(1), "none", 0, NoStr)>>,
    <<PlainFunction, Obj("object", "nonext", WithMethodAndField(1), "none", 0, NoStr)>>,
    <<PlainFunction, Obj("object", "frozen", WithMethodAndField(1), "none", 0, NoStr)>> }

\* Return values and completions of an operation.
Ret(kind, s, ref, recv, arg) ==
  [kind |-> kind, s |-> s, ref |-> ref, recv |-> recv, arg |-> arg]
RetNone == Ret("none", Empty, 0, 0, Undef)
RetThis == Ret("this", Empty, 0, 0, Undef)
RetString(s) == Ret("string", s, 0, 0, Undef)
RetRef(r) == Ret("ref", Empty, r, 0, Undef)
RetDescriptor(f) == Ret("descriptor", Empty, f, 0, Undef)
RetUndefined == Ret("undefined", Empty, 0, 0, Undef)
RetValue(v) == Ret("value", Empty, 0, 0, v)
\* The user's function body returns [this, args[0]].
RetResult(recv, arg) == Ret("result", Empty, 0, recv, arg)
RetThrown == Ret("thrown", Empty, 0, 0, Undef)

Outcome(h, r, e) == [heap |-> h, ret |-> r, error |-> e]
Throw(h) == Outcome(h, RetThrown, "TypeError")

\* typeof target === "function"
IsCallable(h, t) == t # 0 /\ h[t].ty \in {"function", "class"}

\* o.__doc__ = ... : adding a field needs an extensible object, overwriting
\* one needs a non-frozen object.  The wrappers and the setter are written in
\* a class body, which is strict code (the build keeps classes: target
\* es2015, esbuild.config.js line 15), so a write that fails throws TypeError.
CanSetDoc(o) == IF o.doc.set THEN o.integrity # "frozen" ELSE o.integrity = "ext"
\* this[`_${key}`] = value
CanSetShadow(o, key) ==
  IF o.shadow[key] # Undef THEN o.integrity # "frozen" ELSE o.integrity = "ext"
\* Object.defineProperty(target, key, {... configurable: true})
CanDefine(o, key) ==
  IF o.props[key].kind = "none" THEN o.integrity = "ext" ELSE o.integrity # "frozen"

\* self.label read when the wrapper / setter runs (lines 82, 94): the closure
\* holds the Annotator, so it reads the label of that moment.
selfLabel_capturedAtDecorate(lbl, captured) == captured.s

selfLabel(lbl, captured) == lbl

\* The receiver target.apply(this, args) passes on (lines 63, 83).
applyThis_dropsReceiver(recv) == 0

applyThis(recv) == recv

\* A call f.apply(recv, [arg]) of a function object of the heap.
RECURSIVE Apply(_, _, _, _, _)
Apply(h, f, recv, arg, lbl) ==
  LET o == h[f]
  IN CASE o.fkind = "orig" ->
            \* a class constructor cannot be invoked without `new`
            IF o.ty = "class" THEN Throw(h)
            ELSE Outcome(h, RetResult(recv, arg), "none")
       [] o.fkind = "fwrap" -> Apply(h, o.target, applyThis(recv), arg, lbl)
       [] o.fkind = "mwrap" ->
            IF recv = 0 \/ ~CanSetDoc(h[recv]) THEN Throw(h)
            ELSE Apply([h EXCEPT ![recv].doc = Str(selfLabel(lbl, o.cap))],
                       o.target, applyThis(recv), arg, lbl)
       [] OTHER -> Throw(h)

\* decorate(target, propertyKey?) (lines 55-102).
decorate(h, lbl, t, key) ==
  IF IsCallable(h, t) /\ key = NoKey
  THEN Outcome(Append(h, [Obj("function", "ext", NoProps, "fwrap", t, Str(lbl))
                            EXCEPT !.doc = Str(lbl)]),
               RetRef(Len(h) + 1), "none")
  ELSE IF key = NoKey
       THEN IF t = 0 \/ ~CanSetDoc(h[t]) THEN Throw(h)
            ELSE Outcome([h EXCEPT ![t].doc = Str(lbl)], RetRef(t), "none")
       ELSE IF t = 0 THEN Throw(h)
            ELSE LET descriptor == h[t].props[key]
                 IN IF descriptor.kind = "data" /\ descriptor.fn # 0
                    THEN Outcome(Append(h, Obj("function", "ext", NoProps, "mwrap",
                                               descriptor.fn, Str(lbl))),
                                 RetDescriptor(Len(h) + 1), "none")
                    ELSE IF ~CanDefine(h[t], key) THEN Throw(h)
                         ELSE Outcome([h EXCEPT ![t].props[key] = AccessorProp(lbl)],
                                      RetUndefined, "none")

\* Does decorate(t, key) allocate a function object?
Allocates(h, t, key) ==
  \/ IsCallable(h, t) /\ key = NoKey
  \/ key # NoKey /\ t # 0 /\ h[t].props[key].kind = "data" /\ h[t].props[key].fn # 0

\* The setter of lines 92-95, run by obj[key] = value.
setter(h, lbl, o, key, value) ==
  IF IsSymbol(key) \/ ~CanSetShadow(h[o], key) THEN Throw(h)
  ELSE LET h1 == [h EXCEPT ![o].shadow[key] = value]
       IN IF ~CanSetDoc(h1[o]) THEN Throw(h1)
          ELSE Outcome([h1 EXCEPT ![o].doc = Str(selfLabel(lbl, h[o].props[key].cap))],
                       RetUndefined, "none")

\* The getter of lines 89-91, run by reading obj[key].
getter(h, o, key) ==
  IF IsSymbol(key) THEN Throw(h)
  ELSE Outcome(h, RetValue(h[o].shadow[key]), "none")

\* ------------------------------------------------------------ the state
VARIABLES
  label,     \* Annotator.label
  options,   \* Annotator.options
  heap,      \* the objects decorate may touch, by reference 1..Len(heap)
  ret,       \* what the last operation returned
  error,     \* "none", or the exception the last operation threw
  lastOp,    \* the last operation and its arguments
  callerTarget,  \* input: the reference of the caller's target
  propertyKey,   \* input: the property key the caller decorates with
  seed,      \* history: the label the factory set
  calls      \* history: the mutator calls made, in order

vars == <<label, options, heap, ret, error, lastOp, callerTarget, propertyKey, seed, calls>>

Op(name, t, k, recv, arg) ==
  [name |-> name, target |-> t, key |-> k, recv |-> recv, arg |-> arg]
Call(op, a, b) == [op |-> op, a |-> a, b |-> b]

Seeds == {forClass(<<"A">>), forMethod(MyMethod), forFunction, forProperty(<<"p">>)}
Descriptions == {Desc}
TagNames == {Author}
TagValues == {<<"X">>}
OptStrings(s) == {NoStr, Str(Empty), Str(s)}
TagSets ==
  {NoTags, Tags(<<>>), Tags(<<Tag(Author, <<"X">>)>>),
   Tags(<<Tag(Author, <<"X">>), Tag(Since, <<"1">>)>>)}

InitWith(seeds, opts, heaps) ==
  /\ label \in seeds
  /\ seed = label
  /\ options \in opts
  /\ heap \in heaps
  /\ callerTarget = Len(heap)
  /\ propertyKey \in IF IsCallable(heap, callerTarget) THEN {NoKey} ELSE Keys
  /\ ret = RetNone
  /\ error = "none"
  /\ lastOp = Op("new", 0, NoKey, 0, Undef)
  /\ calls = <<>>

\* new Annotator(seed, options) through a factory, and the caller's target
\* and key.  The options are fixed here; SpecStr below ranges over them.
Init ==
  InitWith({forMethod(MyMethod), forFunction},
           {AnnotatorOptions(NoStr, Str(Desc), NoTags, VTrue)},
           BaseHeaps)

Mutated(lbl, call) ==
  /\ Len(calls) < MaxMutations
  /\ label' = lbl
  /\ calls' = Append(calls, call)
  /\ ret' = RetThis
  /\ error' = "none"
  /\ lastOp' = Op(call.op, 0, NoKey, 0, Undef)
  /\ UNCHANGED <<options, heap, callerTarget, propertyKey, seed>>

WithDescription ==
  \E d \in Descriptions :
    Mutated(withDescription(label, d), Call("withDescription", d, Empty))

WithTag ==
  \E n \in TagNames, v \in TagValues :
    Mutated(withTag(label, n, v), Call("withTag", n, v))

WithPreserveTypes ==
  Mutated(withPreserveTypes(label, options), Call("withPreserveTypes", Empty, Empty))

ToString ==
  /\ ret' = RetString(toString(label, options))
  /\ label' = toStringLabel(label, options)
  /\ error' = "none"
  /\ lastOp' = Op("toString", 0, NoKey, 0, Undef)
  /\ UNCHANGED <<options, heap, callerTarget, propertyKey, seed, calls>>

Finish(out, op) ==
  /\ heap' = out.heap
  /\ ret' = out.ret
  /\ error' = out.error
  /\ lastOp' = op
  /\ UNCHANGED <<label, options, callerTarget, propertyKey, seed, calls>>

\* decorate(t) / decorate(t, key) on the caller's target, on null, or on a
\* function wrapper an earlier decorate returned.  The keyed form is given
\* the non-callable targets; the number of function objects allocated is
\* capped by MaxWrappers.
Decorate ==
  \E t \in 0..Len(heap), k \in {NoKey, propertyKey} :
    /\ t \in {0, callerTarget} \/ (t # 0 /\ heap[t].fkind = "fwrap")
    /\ k # NoKey => ~IsCallable(heap, t)
    /\ Allocates(heap, t, k) => Len(heap) < callerTarget + MaxWrappers
    /\ Finish(decorate(heap, label, t, k), Op("decorate", t, k, 0, Undef))

\* The caller redefines the method with a descriptor decorate returned:
\* Object.defineProperty(target, key, descriptor).  A frozen target cannot be
\* redefined, so the caller has no redefinition to make there.
DefineDescriptor ==
  \E w \in 1..Len(heap) :
    /\ heap[w].fkind = "mwrap"
    /\ heap[callerTarget].integrity # "frozen"
    /\ Finish(Outcome([heap EXCEPT ![callerTarget].props[propertyKey] = MethodProp(w)],
                      RetUndefined, "none"),
              Op("defineProperty", callerTarget, propertyKey, 0, Undef))

\* f.apply(recv, [arg]) on a function or a returned wrapper.
Invoke ==
  \E f \in 1..Len(heap), recv \in {0, callerTarget}, arg \in Args :
    /\ IsCallable(heap, f)
    /\ Finish(Apply(heap, f, recv, arg, label), Op("invoke", f, NoKey, recv, arg))

\* obj[key](arg)
CallMethod ==
  \E o \in 1..Len(heap), k \in Keys, arg \in Args :
    /\ heap[o].props[k].kind = "data"
    /\ heap[o].props[k].fn # 0
    /\ Finish(Apply(heap, heap[o].props[k].fn, o, arg, label),
              Op("callMethod", o, k, o, arg))

\* obj[key] = value, through the installed setter.
Assign ==
  \E o \in 1..Len(heap), k \in Keys, value \in Vals :
    /\ heap[o].props[k].kind = "accessor"
    /\ Finish(setter(heap, label, o, k, value), Op("assign", o, k, o, value))

\* obj[key], through the installed getter.
Read ==
  \E o \in 1..Len(heap), k \in Keys :
    /\ heap[o].props[k].kind = "accessor"
    /\ Finish(getter(heap, o, k), Op("read", o, k, o, Undef))

Next ==
  \/ WithDescription
  \/ WithTag
  \/ WithPreserveTypes
  \/ ToString
  \/ Decorate
  \/ DefineDescriptor
  \/ Invoke
  \/ CallMethod
  \/ Assign
  \/ Read

Spec == Init /\ [][Next]_vars

\* The string-building half alone, over every shape of the options.
InitStr ==
  InitWith(Seeds,
           {AnnotatorOptions(m, d, t, p) :
              m \in OptStrings(Msg), d \in OptStrings(Desc),
              t \in TagSets, p \in PreserveValues},
           {<<PlainFunction>>})

NextStr ==
  \/ WithDescription
  \/ WithTag
  \/ WithPreserveTypes
  \/ ToString

SpecStr == InitStr /\ [][NextStr]_vars

\* ------------------------------------------------------------ claims
Mutators == {"withDescription", "withTag", "withPreserveTypes"}

\* The segment one mutator call appends.
Segment(c) ==
  CASE c.op = "withDescription" -> NLNL \o c.a
    [] c.op = "withTag" -> NLNL \o <<"@">> \o c.a \o <<" ">> \o c.b
    [] c.op = "withPreserveTypes" -> NLNL \o AtTypeSp \o getType(options)

RECURSIVE Segments(_)
Segments(cs) == IF cs = <<>> THEN Empty ELSE Segment(Head(cs)) \o Segments(Tail(cs))

EndsWith(s, suffix) ==
  Len(suffix) <= Len(s) /\ SubSeq(s, Len(s) - Len(suffix) + 1, Len(s)) = suffix

\* C1: the label is the factory seed followed by one "\n\n"-prefixed segment
\* per mutator call, in call order, whatever toString and decorate calls are
\* made in between; and every step leaves the old label a prefix of the new.
C1_LabelIsSeedPlusSegments ==
  /\ [](label = seed \o Segments(calls))
  /\ [][IsPrefix(label, label')]_vars

C1_Witness ==
  /\ Len(calls) = 2
  /\ calls[1].op = "withDescription"
  /\ calls[2].op = "withTag"
  /\ lastOp.name = "decorate"
  /\ EndsWith(label, Desc \o NLNL \o <<"@">> \o Author \o <<" ", "X">>)

\* C2: a toString step leaves the label, the options and every object
\* unchanged, and a toString directly after a toString returns the same string.
C2_ToStringPure ==
  [][lastOp'.name = "toString" =>
       /\ label' = label
       /\ options' = options
       /\ heap' = heap
       /\ ret'.kind = "string"
       /\ (lastOp.name = "toString" => ret' = ret)]_vars

C2_Witness ==
  /\ lastOp.name = "toString"
  /\ ret.kind = "string"
  /\ calls # <<>>
  /\ Len(heap) > callerTarget

\* C3: decorate on a class with no key returns the same constructor, with
\* its documentation field set to the label.
C3_ClassDecorateReturnsSameConstructor ==
  (/\ lastOp.name = "decorate"
   /\ lastOp.key = NoKey
   /\ lastOp.target # 0
   /\ heap[lastOp.target].ty = "class")
  => (/\ ret.kind = "ref"
      /\ ret.ref = lastOp.target
      /\ heap[lastOp.target].doc = Str(label))

\* C4: decorate on a plain function with no key returns a new function whose
\* documentation field is the label, leaves every existing object (the
\* original included) as it was, and every function wrapper, called with any
\* receiver and argument, completes as the function it wraps does.
C4_FunctionDecorateWraps ==
  [][/\ (/\ lastOp'.name = "decorate"
         /\ lastOp'.key = NoKey
         /\ lastOp'.target # 0
         /\ heap[lastOp'.target].ty = "function")
        => (/\ ret'.kind = "ref"
            /\ ret'.ref \notin 1..Len(heap)
            /\ ret'.ref \in 1..Len(heap')
            /\ heap'[ret'.ref].doc = Str(label)
            /\ \A i \in 1..Len(heap) : heap'[i] = heap[i])
     /\ \A w \in 1..Len(heap') :
          heap'[w].fkind = "fwrap" =>
            \A recv \in 0..Len(heap'), arg \in Args \cup Vals :
              Apply(heap', w, recv, arg, label')
                = Apply(heap', heap'[w].target, recv, arg, label')]_vars

C4_Witness ==
  /\ lastOp.name = "invoke"
  /\ heap[lastOp.target].fkind = "fwrap"
  /\ heap[heap[lastOp.target].target].ty = "function"
  /\ heap[heap[lastOp.target].target].doc = NoStr
  /\ heap[lastOp.target].doc.set
  /\ lastOp.recv # 0
  /\ ret = RetResult(lastOp.recv, lastOp.arg)

\* C5: once a method is redefined with the returned descriptor, every call
\* obj[key](arg) stamps the label on the receiver and returns what the
\* original method returns.
C5_MethodCallStampsAndReturns ==
  (/\ lastOp.name = "callMethod"
   /\ heap[heap[lastOp.target].props[lastOp.key].fn].fkind = "mwrap")
  => (/\ error = "none"
      /\ heap[lastOp.target].doc = Str(label)
      /\ ret = RetResult(lastOp.target, lastOp.arg))

\* C6: after the property form is installed, every assignment obj[key] = v
\* leaves the shadow field equal to v, a read of obj[key] returning v, and
\* obj.__doc__ equal to the label.
C6_AssignWritesShadowAndDoc ==
  lastOp.name = "assign"
  => (/\ error = "none"
      /\ heap[lastOp.target].shadow[lastOp.key] = lastOp.arg
      /\ getter(heap, lastOp.target, lastOp.key).ret = RetValue(lastOp.arg)
      /\ heap[lastOp.target].doc = Str(label))

\* C7: no operation ever throws.
C7_NeverThrows == error = "none"

\* The tags, one per line as "@name value".
RECURSIVE TagLines(_, _)
TagLines(es, i) ==
  IF i > Len(es) THEN Empty
  ELSE (IF i > 1 THEN <<"\n">> ELSE Empty)
         \o <<"@">> \o es[i].name \o <<" ">> \o es[i].value \o TagLines(es, i + 1)

Rendering(lbl, opts, messageSet, descriptionSet, preserveSet) ==
  lbl
    \o (IF messageSet THEN <<" ", "(">> \o opts.message.s \o <<")">> ELSE Empty)
    \o (IF descriptionSet THEN NLNL \o opts.description.s ELSE Empty)
    \o NLNL \o TagLines(opts.tags.entries, 1)
    \o (IF preserveSet THEN NLNL \o AtTypeSp \o getType(opts) ELSE Empty)

ExampleOptions == AnnotatorOptions(NoStr, Str(Desc), Tags(<<Tag(Author, <<"X">>)>>), VAbsent)
ExampleRendering ==
  <<"M", "e", "t", "h", "o", "d", ":", " ", "m", "y", "M", "e", "t", "h", "o", "d",
    "\n", "\n", "d", "e", "s", "c", "\n", "\n", "@", "a", "u", "t", "h", "o", "r",
    " ", "X">>

\* C8 as stated: toString returns the label, then each part whose option is
\* set (present, whatever its value), the "\n\n" before the tag block always.
C8_ToStringRendersSetOptions ==
  lastOp.name = "toString"
  => ret.s = Rendering(label, options, options.message.set, options.description.set,
                       options.preserveTypes.lit # "absent")

\* C8 (amended): message and description contribute when they are non-empty
\* strings, preserveTypes when it is truthy; the "\n\n" before the tag block
\* is always there; the example renders as given and every rendering begins
\* with the factory's seed.
C8_ToStringRendersTruthyOptions ==
  lastOp.name = "toString"
  => (/\ ret.s = Rendering(label, options, options.message.s # Empty,
                           options.description.s # Empty,
                           options.preserveTypes.truthy)
      /\ IsPrefix(seed, ret.s)
      /\ (options = ExampleOptions /\ label = forMethod(MyMethod)
            => ret.s = ExampleRendering))

C8_Witness ==
  /\ lastOp.name = "toString"
  /\ options = ExampleOptions
  /\ label = forMethod(MyMethod)
  /\ ret.s = ExampleRendering

\* The type name as C9 states it: Number / String / Boolean for a number,
\* string or boolean, "unknown" when the option is absent, null or has no
\* constructor function, and the constructor's name otherwise.
ClaimedTypeName(p) ==
  IF p.ty \in {"number", "string", "boolean"}
  THEN (CASE p.ty = "number" -> NumberName
          [] p.ty = "string" -> StringName
          [] p.ty = "boolean" -> BooleanName)
  ELSE IF p.lit \in {"absent", "null"} \/ p.ctor # "fn" THEN Unknown ELSE p.name

\* C9 as stated: withPreserveTypes appends "\n\n@type " and that type name.
C9_PreserveTypesAppendsClaimedType ==
  [][lastOp'.name = "withPreserveTypes" =>
       label' = label \o NLNL \o AtTypeSp \o ClaimedTypeName(options.preserveTypes)]_vars

\* As ClaimedTypeName, except that a falsy value that is not a number, string
\* or boolean (the BigInt 0n) also resolves to "unknown".
AmendedTypeName(p) ==
  IF p.ty \notin {"number", "string", "boolean"} /\ ~p.truthy
  THEN Unknown
  ELSE ClaimedTypeName(p)

\* C9 (amended): withPreserveTypes appends "\n\n@type " and the type name,
\* where a falsy value other than false, 0 and "" resolves to "unknown";
\* true gives Boolean, "abc" String and {} Object.
C9_PreserveTypesAppendsType ==
  [][lastOp'.name = "withPreserveTypes" =>
       /\ label' = label \o NLNL \o AtTypeSp \o AmendedTypeName(options.preserveTypes)
       /\ (options.preserveTypes = VTrue => EndsWith(label', AtTypeSp \o BooleanName))
       /\ (options.preserveTypes = VAbc => EndsWith(label', AtTypeSp \o StringName))
       /\ (options.preserveTypes = VObj => EndsWith(label', AtTypeSp \o ObjectName))]_vars

C9_Witness ==
  /\ lastOp.name = "withPreserveTypes"
  /\ options.preserveTypes = VBigZero
  /\ label = seed \o NLNL \o AtTypeSp \o Unknown

DocBefore(o) == IF o <= Len(heap) THEN heap[o].doc ELSE NoStr

\* C10: whenever a documentation field changes it becomes the label of that
\* moment (never the toString rendering); a mutator changes no documentation
\* field already written; and a method call or an assignment that completes
\* leaves the receiver's field equal to the label as it is then.

C10_DocIsLabelAtStamping ==
  /\ [][/\ \A o \in 1..Len(heap') :
             heap'[o].doc # DocBefore(o) =>
               /\ heap'[o].doc = Str(label)
               /\ label' = label
               /\ heap'[o].doc.s # toString(label, options)
        /\ lastOp'.name \in Mutators =>
             \A o \in 1..Len(heap) : heap'[o].doc = heap[o].doc]_vars
  /\ []((/\ lastOp.name \in {"callMethod", "assign"}
         /\ error = "none"
         /\ \/ lastOp.name = "assign"
            \/ heap[heap[lastOp.target].props[lastOp.key].fn].fkind = "mwrap")
        => heap[lastOp.target].doc = Str(label))

\* A setter installed before a mutator ran has stamped the longer label,
\* and an assignment has been made.
C10_Witness ==
  /\ lastOp.name = "assign"
  /\ error = "none"
  /\ heap[lastOp.target].props[lastOp.key].cap # Str(label)
  /\ heap[lastOp.target].doc = Str(label)

====
